---- MODULE Spec2Model ----
(***************************************************************************)
(* A model of compiler-core/src/io.rs: the error-converting write          *)
(* contracts (Utf8Writer, Writer), WrappedWriter, the in-memory test       *)
(* double (FilesChannel, InMemoryFile) and TarUnpacker::unpack.            *)
(*                                                                         *)
(* Values.  A byte slice is a sequence of numbers 0..255, a &str is a      *)
(* sequence of Unicode scalar values.  A Result is a record with ok = TRUE *)
(* and val, or ok = FALSE and error.  A native error (io::Error,           *)
(* fmt::Error) is modelled by its to_string() text, the only thing the     *)
(* code reads from it.  Some(x) is the sequence <<x>>.                    *)
(***************************************************************************)
EXTENDS Naturals, Sequences, FiniteSets

VARIABLES
    res,            \* the writable resources created so far, in creation order
    queue,          \* the messages in flight in the mpsc channel, oldest first
    senders,        \* the number of live FilesChannel handles (Sender clones)
    receiverAlive,  \* whether the Receiver half still exists
    primCalls,      \* the calls made to io_result_unpack, oldest first
    unpacks,        \* the number of calls made to TarUnpacker::unpack
    last            \* the operation just performed, its inputs and its result
                    \* ("handle": a handle was cloned or dropped, no result)

vars == <<res, queue, senders, receiverAlive, primCalls, unpacks, last>>

\* ---------------------------------------------------------------- bounds
MaxFiles == 2
MaxLen == 2
MaxHeld == 2
MaxSenders == 2
MaxUnpacks == 3

\* ---------------------------------------------------------------- inputs
Paths == {"/a", "/b"}
IoErrors == {"disk full", "broken pipe"}
Strs == {<<97>>, <<233>>}
ByteSlices == {<<195>>, <<169>>}
Archives == {"t1", "t2"}
\* The paths opened where only the ownership of the buffers is followed.
ReclaimPaths == {"/a"}

\* ---------------------------------------------------------------- values
Ok(v) == [ok |-> TRUE, val |-> v]
Err(e) == [ok |-> FALSE, error |-> e]
Unit == "()"
Some(x) == <<x>>

\* Display of std::fmt::Error.
FmtErrorText == "an error occurred when formatting an argument"

\* ---------------------------------------------------------------- UTF-8
\* str::as_bytes of one char: the UTF-8 encoding of a scalar value.
EncodeChar(c) ==
    IF c < 128 THEN <<c>>
    ELSE IF c < 2048 THEN <<192 + (c \div 64), 128 + (c % 64)>>
    ELSE IF c < 65536
        THEN <<224 + (c \div 4096), 128 + ((c \div 64) % 64), 128 + (c % 64)>>
    ELSE <<240 + (c \div 262144), 128 + ((c \div 4096) % 64),
           128 + ((c \div 64) % 64), 128 + (c % 64)>>

RECURSIVE AsBytes(_)
AsBytes(s) == IF s = <<>> THEN <<>> ELSE EncodeChar(Head(s)) \o AsBytes(Tail(s))

IsCont(b) == b >= 128 /\ b <= 191

\* The length of the well-formed UTF-8 sequence that starts b, 0 if there is none.
SeqLen(b) ==
    IF b = <<>> THEN 0
    ELSE LET b0 == b[1] IN
        IF b0 < 128 THEN 1
        ELSE IF b0 >= 194 /\ b0 <= 223
            THEN IF Len(b) >= 2 /\ IsCont(b[2]) THEN 2 ELSE 0
        ELSE IF b0 >= 224 /\ b0 <= 239
            THEN IF /\ Len(b) >= 3
                    /\ IsCont(b[2]) /\ IsCont(b[3])
                    /\ (b0 = 224 => b[2] >= 160)
                    /\ (b0 = 237 => b[2] <= 159)
                 THEN 3 ELSE 0
        ELSE IF b0 >= 240 /\ b0 <= 244
            THEN IF /\ Len(b) >= 4
                    /\ IsCont(b[2]) /\ IsCont(b[3]) /\ IsCont(b[4])
                    /\ (b0 = 240 => b[2] >= 144)
                    /\ (b0 = 244 => b[2] <= 143)
                 THEN 4 ELSE 0
        ELSE 0

\* The scalar value encoded by the first n bytes of b.
DecodeChar(b, n) ==
    IF n = 1 THEN b[1]
    ELSE IF n = 2 THEN (b[1] - 192) * 64 + (b[2] - 128)
    ELSE IF n = 3 THEN (b[1] - 224) * 4096 + (b[2] - 128) * 64 + (b[3] - 128)
    ELSE (b[1] - 240) * 262144 + (b[2] - 128) * 4096 + (b[3] - 128) * 64 + (b[4] - 128)

\* String::from_utf8(bytes).map_err(|_| ()): the text, or Err(()).
RECURSIVE FromUtf8(_)
FromUtf8(b) ==
    IF b = <<>> THEN Ok(<<>>)
    ELSE LET n == SeqLen(b) IN
        IF n = 0 THEN Err(Unit)
        ELSE LET rest == FromUtf8(SubSeq(b, n + 1, Len(b))) IN
            IF rest.ok THEN Ok(<<DecodeChar(b, n)>> \o rest.val) ELSE Err(Unit)


\* ---------------------------------------------------------------- write contracts
\* Result::map(|_| ()): the success value is forgotten, the error kept.
MapUnit(result) == IF result.ok THEN Ok(Unit) ELSE result

FileIoWriteError(kind, path, text) ==
    [action |-> "WriteTo", kind |-> kind, path |-> path, err |-> Some(text)]

\* A convert_err that reports the sentinel of the String implementation.
WrappedWriterConvertErrSentinel(path, result) ==
    IF result.ok THEN result
    ELSE Err(FileIoWriteError("File", "<in memory>", result.error))

\* <WrappedWriter as Utf8Writer>::convert_err
WrappedWriterConvertErr(path, result) ==
    IF result.ok THEN result
    ELSE Err(FileIoWriteError("File", path, result.error))

\* <InMemoryFile as Utf8Writer>::convert_err
InMemoryFileConvertErr(result) ==
    IF result.ok THEN result
    ELSE Err(FileIoWriteError("File", "<in memory test file>", result.error))

\* Utf8Writer::wrap_result, for an InMemoryFile handle.
InMemoryFileWrapResult(result) == InMemoryFileConvertErr(MapUnit(result))

\* Utf8Writer::wrap_result, for a WrappedWriter constructed with path.
WrapResult(path, result) == WrappedWriterConvertErr(path, MapUnit(result))

\* <WrappedWriter as fmt::Write>::write_str, given what inner.write returned:
\* .map(|_| ()).map_err(|_| fmt::Error)
WriteStr(inner) == IF inner.ok THEN Ok(Unit) ELSE Err(FmtErrorText)

\* <Vec<u8> as io::Write>::write, behind InMemoryFile::write: takes the whole slice.
VecWrite(buf) == {Ok(Len(buf))}

\* An arbitrary Box<dyn io::Write>: it takes some prefix of the slice and reports
\* its length, or fails.
DynWrite(buf) == {Ok(k) : k \in 0..Len(buf)} \cup {Err(e) : e \in IoErrors}

\* self.inner.write(buf), by the kind of the boxed resource.
InnerWrite(kind, buf) == IF kind = "mem" THEN VecWrite(buf) ELSE DynWrite(buf)

\* The resource after a call that submitted buf: inner says how much it took,
\* result is what the caller was told.  submitted is the history of the slices
\* whose call returned Ok, through whichever handle of the resource.
AfterWrite(r, buf, inner, result) ==
    [r EXCEPT !.contents = IF inner.ok THEN @ \o SubSeq(buf, 1, inner.val) ELSE @,
              !.submitted = IF result.ok THEN @ \o buf ELSE @]

NewResource(kind, path) ==
    [kind |-> kind, path |-> path, contents |-> <<>>, submitted |-> <<>>,
     writer |-> TRUE, held |-> 0]

WriteOps == {"write", "Writer::write", "str_write"}

\* The number of bytes submitted so far, over all resources.
RECURSIVE TotalSubmitted(_)
TotalSubmitted(rs) ==
    IF rs = <<>> THEN 0 ELSE Len(Head(rs).submitted) + TotalSubmitted(Tail(rs))

CanWrite(w, buf) ==
    /\ w \in DOMAIN res
    /\ res[w].writer
    /\ TotalSubmitted(res) + Len(buf) <= MaxLen

\* ---------------------------------------------------------------- initial state
Init ==
    /\ res = <<>>
    /\ queue = <<>>
    /\ senders = 1
    /\ receiverAlive = TRUE
    /\ primCalls = <<>>
    /\ unpacks = 0
    /\ last = [op |-> "none"]

\* ---------------------------------------------------------------- WrappedWriter
\* WrappedWriter::new(path, inner) over an arbitrary writable resource.
WrappedWriterNew(path) ==
    /\ Len(res) < MaxFiles
    /\ res' = Append(res, NewResource("dyn", path))
    /\ last' = [op |-> "new", w |-> Len(res) + 1, path |-> path]
    /\ UNCHANGED <<queue, senders, receiverAlive, primCalls, unpacks>>

\* The step shared by the two byte facets: inner.write, then wrap_result.
ByteWrite(op, w, bytes) ==
    /\ CanWrite(w, bytes)
    /\ \E inner \in InnerWrite(res[w].kind, bytes) :
        LET result == WrapResult(res[w].path, inner) IN
        /\ res' = [res EXCEPT ![w] = AfterWrite(@, bytes, inner, result)]
        /\ last' = [op |-> op, w |-> w, inner |-> inner, res |-> result]
    /\ UNCHANGED <<queue, senders, receiverAlive, primCalls, unpacks>>

\* WrappedWriter::write(bytes), the inherent method.
WrappedWriterWrite(w, bytes) == ByteWrite("write", w, bytes)

\* Writer::write(bytes), the trait's provided method, through
\* <WrappedWriter as io::Write>::write.
WriterWrite(w, bytes) == ByteWrite("Writer::write", w, bytes)

\* Utf8Writer::str_write(str): write_str, then wrap_result.
StrWrite(w, s) ==
    LET bytes == AsBytes(s) IN
    /\ CanWrite(w, bytes)
    /\ \E inner \in InnerWrite(res[w].kind, bytes) :
        LET result == WrapResult(res[w].path, WriteStr(inner)) IN
        /\ res' = [res EXCEPT ![w] = AfterWrite(@, bytes, inner, result)]
        /\ last' = [op |-> "str_write", w |-> w, inner |-> inner, res |-> result]
    /\ UNCHANGED <<queue, senders, receiverAlive, primCalls, unpacks>>

\* The WrappedWriter goes out of scope: its boxed resource is released.
DropWriter(w) ==
    /\ w \in DOMAIN res
    /\ res[w].writer
    /\ res' = [res EXCEPT ![w].writer = FALSE]
    /\ last' = [op |-> "handle"]
    /\ UNCHANGED <<queue, senders, receiverAlive, primCalls, unpacks>>

NextWriters ==
    \/ \E p \in Paths : WrappedWriterNew(p)
    \/ \E w \in 1..MaxFiles, b \in ByteSlices : WrappedWriterWrite(w, b)
    \/ \E w \in 1..MaxFiles, b \in ByteSlices : WriterWrite(w, b)
    \/ \E w \in 1..MaxFiles, s \in Strs : StrWrite(w, s)
    \/ \E w \in 1..MaxFiles : DropWriter(w)

SpecWriters == Init /\ [][NextWriters]_vars


\* ---------------------------------------------------------------- InMemoryFile
\* Rc::strong_count of the buffer of file f: the boxed handle inside the writer,
\* the clones queued in the channel and the clones received and still held.
StrongCount(rs, q, f) ==
    (IF rs[f].writer THEN 1 ELSE 0) + rs[f].held
        + Cardinality({i \in DOMAIN q : q[i].file = f})

\* An into_contents that hands the bytes out whoever else holds the buffer.
IntoContentsShared(count, contents) == Ok(contents)

\* InMemoryFile::into_contents on a handle of a buffer with `count` owners, the
\* handle included: Rc::try_unwrap(..).map_err(|_| ()).map(RefCell::into_inner)
IntoContents(count, contents) ==
    IF count = 1 THEN Ok(contents) ELSE Err(Unit)

\* An InMemoryFile::new that hands out the buffer already open for the path.
OpenFileShared(rs, path) ==
    IF \E i \in DOMAIN rs : rs[i].kind = "mem" /\ rs[i].path = path
    THEN LET i == CHOOSE i \in DOMAIN rs : rs[i].kind = "mem" /\ rs[i].path = path
         IN [rs |-> [rs EXCEPT ![i].writer = TRUE], f |-> i]
    ELSE [rs |-> Append(rs, NewResource("mem", path)), f |-> Len(rs) + 1]

\* InMemoryFile::new() in FilesChannel::writer: a buffer of its own, empty.
OpenFile(rs, path) ==
    [rs |-> Append(rs, NewResource("mem", path)), f |-> Len(rs) + 1]

\* ---------------------------------------------------------------- the channel
\* A send that puts the message in front of the queued ones.
SenderSendFront(q, alive, msg) ==
    IF alive THEN [queue |-> <<msg>> \o q, ok |-> TRUE] ELSE [queue |-> q, ok |-> FALSE]

\* Sender::send: queued behind the earlier messages, or refused (and the message
\* dropped with the error) when the Receiver is gone.
SenderSend(q, alive, msg) ==
    IF alive THEN [queue |-> Append(q, msg), ok |-> TRUE] ELSE [queue |-> q, ok |-> FALSE]

\* A writer() that reports the failed send to its caller.
WriterResultStrict(sent, path, f) ==
    IF sent THEN Ok(f) ELSE Err(FileIoWriteError("File", path, "sending on a closed channel"))

\* What FilesChannel::writer returns: `let _ = send(..)`, then Ok(WrappedWriter).
WriterResult(sent, path, f) == Ok(f)

\* A drain that leaves out the files it cannot reclaim or decode.
RECURSIVE CollectSkipping(_, _, _)
CollectSkipping(q, rs, acc) ==
    IF q = <<>> THEN [res |-> Ok(acc), rest |-> <<>>]
    ELSE LET m == Head(q)
             bytes == IntoContents(StrongCount(rs, Tail(q), m.file) + 1,
                                   rs[m.file].contents)
             text == IF bytes.ok THEN FromUtf8(bytes.val) ELSE Err(Unit)
         IN CollectSkipping(Tail(q), rs,
                IF text.ok THEN Append(acc, [path |-> m.path, text |-> text.val])
                ELSE acc)

RecvUtf8FilesSkipping(q, rs, connected) == CollectSkipping(q, rs, <<>>)

\* receiver.try_iter().map(..).collect::<Result<Vec<_>, ()>>(): messages are
\* taken one at a time, oldest first; the first Err ends the collection and
\* leaves the later messages queued.  acc is the Vec collected so far.
RECURSIVE Collect(_, _, _)
Collect(q, rs, acc) ==
    IF q = <<>> THEN [res |-> Ok(acc), rest |-> <<>>]
    ELSE LET m == Head(q)
             bytes == IntoContents(StrongCount(rs, Tail(q), m.file) + 1,
                                   rs[m.file].contents)
             text == IF bytes.ok THEN FromUtf8(bytes.val) ELSE Err(Unit)
         IN IF text.ok
            THEN Collect(Tail(q), rs, Append(acc, [path |-> m.path, text |-> text.val]))
            ELSE [res |-> Err(Unit), rest |-> Tail(q)]

\* A drain that fails when every Sender is gone.
RecvUtf8FilesFailClosed(q, rs, connected) ==
    IF connected THEN Collect(q, rs, <<>>) ELSE [res |-> Err(Unit), rest |-> q]

\* FilesChannel::recv_utf8_files.  try_iter ends at the first failed try_recv,
\* Empty or Disconnected alike, so `connected` is not read.
RecvUtf8Files(q, rs, connected) == Collect(q, rs, <<>>)

\* FilesChannel::writer(path)
FilesChannelWriter(path) ==
    /\ senders > 0
    /\ Len(res) < MaxFiles
    /\ LET o == OpenFile(res, path)
           snd == SenderSend(queue, receiverAlive, [path |-> path, file |-> o.f])
       IN /\ res' = o.rs
          /\ queue' = snd.queue
          /\ last' = [op |-> "writer", w |-> o.f, path |-> path, sent |-> snd.ok,
                      res |-> WriterResult(snd.ok, path, o.f)]
    /\ UNCHANGED <<senders, receiverAlive, primCalls, unpacks>>

\* FilesChannel::clone (derived): one more Sender on the same channel.
CloneChannel ==
    /\ senders > 0
    /\ senders < MaxSenders
    /\ senders' = senders + 1
    /\ last' = [op |-> "handle"]
    /\ UNCHANGED <<res, queue, receiverAlive, primCalls, unpacks>>

\* A FilesChannel goes out of scope.
DropChannel ==
    /\ senders > 0
    /\ senders' = senders - 1
    /\ last' = [op |-> "handle"]
    /\ UNCHANGED <<res, queue, receiverAlive, primCalls, unpacks>>

\* The Receiver goes out of scope: the queued messages are dropped with it.
DropReceiver ==
    /\ receiverAlive
    /\ receiverAlive' = FALSE
    /\ queue' = <<>>
    /\ last' = [op |-> "handle"]
    /\ UNCHANGED <<res, senders, primCalls, unpacks>>

\* The owner of the Receiver takes one message and keeps its file handle.
TryRecv ==
    /\ receiverAlive
    /\ queue # <<>>
    /\ res' = [res EXCEPT ![Head(queue).file].held = @ + 1]
    /\ queue' = Tail(queue)
    /\ last' = [op |-> "try_recv", w |-> Head(queue).file, path |-> Head(queue).path]
    /\ UNCHANGED <<senders, receiverAlive, primCalls, unpacks>>

\* InMemoryFile::clone (derived) on a received handle: one more owner of its buffer.
CloneFile(f) ==
    /\ f \in DOMAIN res
    /\ res[f].held > 0
    /\ res[f].held < MaxHeld
    /\ res' = [res EXCEPT ![f].held = @ + 1]
    /\ last' = [op |-> "handle"]
    /\ UNCHANGED <<queue, senders, receiverAlive, primCalls, unpacks>>

CanWriteFile(f, buf) ==
    /\ f \in DOMAIN res
    /\ res[f].held > 0
    /\ TotalSubmitted(res) + Len(buf) <= MaxLen

\* <InMemoryFile as io::Write>::write on a received handle: the count the Vec
\* reports is returned as it is.
InMemoryFileIoWrite(f, bytes) ==
    /\ CanWriteFile(f, bytes)
    /\ \E inner \in VecWrite(bytes) :
        /\ res' = [res EXCEPT ![f] = AfterWrite(@, bytes, inner, inner)]
        /\ last' = [op |-> "file io::write", w |-> f, inner |-> inner, res |-> inner]
    /\ UNCHANGED <<queue, senders, receiverAlive, primCalls, unpacks>>

\* Writer::write on a received handle: io::Write::write, then wrap_result.
InMemoryFileWriterWrite(f, bytes) ==
    /\ CanWriteFile(f, bytes)
    /\ \E inner \in VecWrite(bytes) :
        LET result == InMemoryFileWrapResult(inner) IN
        /\ res' = [res EXCEPT ![f] = AfterWrite(@, bytes, inner, result)]
        /\ last' = [op |-> "file Writer::write", w |-> f, inner |-> inner,
                    res |-> result]
    /\ UNCHANGED <<queue, senders, receiverAlive, primCalls, unpacks>>

\* Utf8Writer::str_write on a received handle: <InMemoryFile as
\* fmt::Write>::write_str, then wrap_result.
InMemoryFileStrWrite(f, s) ==
    LET bytes == AsBytes(s) IN
    /\ CanWriteFile(f, bytes)
    /\ \E inner \in VecWrite(bytes) :
        LET result == InMemoryFileWrapResult(WriteStr(inner)) IN
        /\ res' = [res EXCEPT ![f] = AfterWrite(@, bytes, inner, result)]
        /\ last' = [op |-> "file str_write", w |-> f, inner |-> inner,
                    res |-> result]
    /\ UNCHANGED <<queue, senders, receiverAlive, primCalls, unpacks>>

\* A received file handle is discarded.
DropFile(f) ==
    /\ f \in DOMAIN res
    /\ res[f].held > 0
    /\ res' = [res EXCEPT ![f].held = @ - 1]
    /\ last' = [op |-> "handle"]
    /\ UNCHANGED <<queue, senders, receiverAlive, primCalls, unpacks>>

\* InMemoryFile::into_contents on a received handle; the handle is consumed
\* whether or not the buffer is handed out.
InMemoryFileIntoContents(f) ==
    /\ f \in DOMAIN res
    /\ res[f].held > 0
    /\ res' = [res EXCEPT ![f].held = @ - 1]
    /\ last' = [op |-> "into_contents", w |-> f,
                res |-> IntoContents(StrongCount(res, queue, f), res[f].contents)]
    /\ UNCHANGED <<queue, senders, receiverAlive, primCalls, unpacks>>

\* FilesChannel::recv_utf8_files(&receiver)
FilesChannelRecvUtf8Files ==
    /\ receiverAlive
    /\ LET d == RecvUtf8Files(queue, res, senders > 0)
       IN /\ queue' = d.rest
          /\ last' = [op |-> "drain", queue |-> queue, connected |-> senders > 0,
                      res |-> d.res]
    /\ UNCHANGED <<res, senders, receiverAlive, primCalls, unpacks>>

\* The test double written to and drained.
Next ==
    \/ \E p \in Paths : FilesChannelWriter(p)
    \/ \E w \in 1..MaxFiles, b \in ByteSlices : WrappedWriterWrite(w, b)
    \/ \E w \in 1..MaxFiles, b \in ByteSlices : WriterWrite(w, b)
    \/ \E w \in 1..MaxFiles, s \in Strs : StrWrite(w, s)
    \/ \E w \in 1..MaxFiles : DropWriter(w)
    \/ CloneChannel
    \/ DropChannel
    \/ DropReceiver
    \/ FilesChannelRecvUtf8Files

Spec == Init /\ [][Next]_vars

\* The test double with its messages received one at a time and their buffers
\* reclaimed by hand.
NextReclaim ==
    \/ \E p \in ReclaimPaths : FilesChannelWriter(p)
    \/ \E w \in 1..MaxFiles, b \in ByteSlices : WrappedWriterWrite(w, b)
    \/ \E w \in 1..MaxFiles, b \in ByteSlices : WriterWrite(w, b)
    \/ \E w \in 1..MaxFiles, s \in Strs : StrWrite(w, s)
    \/ \E w \in 1..MaxFiles : DropWriter(w)
    \/ TryRecv
    \/ \E f \in 1..MaxFiles : CloneFile(f)
    \/ \E f \in 1..MaxFiles, b \in ByteSlices : InMemoryFileIoWrite(f, b)
    \/ \E f \in 1..MaxFiles, b \in ByteSlices : InMemoryFileWriterWrite(f, b)
    \/ \E f \in 1..MaxFiles, s \in Strs : InMemoryFileStrWrite(f, s)
    \/ \E f \in 1..MaxFiles : DropFile(f)
    \/ \E f \in 1..MaxFiles : InMemoryFileIntoContents(f)

SpecReclaim == Init /\ [][NextReclaim]_vars


\* ---------------------------------------------------------------- TarUnpacker
\* io_result_unpack, the primitive an implementor supplies: it succeeds or
\* fails with an io::Error of its own choosing.
IoResultUnpack(path, archive) == {Ok(Unit)} \cup {Err(e) : e \in IoErrors}

\* An unpack that tags its failure as the writers do.
TarUnpackerConvertFile(path, prim) ==
    IF prim.ok THEN prim ELSE Err(FileIoWriteError("File", path, prim.error))

\* The map_err of TarUnpacker::unpack.
TarUnpackerConvert(path, prim) ==
    IF prim.ok THEN prim ELSE Err(FileIoWriteError("Directory", path, prim.error))

\* TarUnpacker::unpack(path, archive)
TarUnpackerUnpack(path, archive) ==
    /\ unpacks < MaxUnpacks
    /\ \E prim \in IoResultUnpack(path, archive) :
        /\ primCalls' = Append(primCalls, [path |-> path, archive |-> archive])
        /\ last' = [op |-> "unpack", path |-> path, archive |-> archive,
                    prim |-> prim, res |-> TarUnpackerConvert(path, prim)]
    /\ unpacks' = unpacks + 1
    /\ UNCHANGED <<res, queue, senders, receiverAlive>>

NextUnpack == \E p \in Paths, a \in Archives : TarUnpackerUnpack(p, a)

SpecUnpack == Init /\ [][NextUnpack]_vars

\* ================================================================ properties
IsWrite == last.op \in WriteOps
IsDrain == last.op = "drain"

\* C1: on every handle the resource holds exactly the concatenation, in call
\* order, of the slices whose write or str_write call returned success, whatever
\* the inner resource, one that takes fewer bytes than given included.
C1_Claim == \A w \in DOMAIN res : res[w].contents = res[w].submitted

\* C2: every error a WrappedWriter returns from write or str_write is a
\* WriteTo/File error whose path is the path that writer was constructed with,
\* also with several writers over different paths written to in any order.
C2_Theorem ==
    (IsWrite /\ ~last.res.ok) =>
        /\ last.res.error.action = "WriteTo"
        /\ last.res.error.kind = "File"
        /\ last.res.error.path = res[last.w].path

C2_Witness ==
    /\ Len(res) = 2
    /\ res[1].writer /\ res[2].writer
    /\ res[1].path # res[2].path
    /\ res[2].submitted # <<>>
    /\ IsWrite /\ last.w = 1 /\ ~last.res.ok

\* C7: when the underlying write fails, write and str_write both fail with a
\* WriteTo error that carries the writer's path and, as its cause, the
\* description of the failure the underlying resource reported.
C7_Claim ==
    (IsWrite /\ ~last.inner.ok) =>
        /\ ~last.res.ok
        /\ last.res.error = FileIoWriteError("File", res[last.w].path, last.inner.error)

\* C3: into_contents succeeds if and only if the handle it is called on is the
\* only owner of the buffer (no writer, no queued clone, no other received
\* clone is left once the handle is consumed), and then returns the bytes written.
C3_Theorem ==
    last.op = "into_contents" =>
        /\ last.res.ok <=> StrongCount(res, queue, last.w) = 0
        /\ last.res.ok => last.res.val = res[last.w].submitted

C3_Witness ==
    /\ last.op = "into_contents"
    /\ last.res.ok
    /\ last.res.val # <<>>

\* A queued file that the drain can reclaim: its writer is released and no
\* received clone of it is held.
Released(f) == ~res[f].writer /\ res[f].held = 0
Reclaimable(q) == \A i \in DOMAIN q : Released(q[i].file)
Decodable(q) == \A i \in DOMAIN q : FromUtf8(res[q[i].file].contents).ok

\* The list holds one entry per message of q, the messages being in the order of
\* the open_for_write calls that sent them (files are numbered in call order),
\* each entry with the path its call was given and a text whose bytes are the
\* bytes written through that call's writer.
InSendOrder(list, q) ==
    /\ Len(list) = Len(q)
    /\ \A i, j \in DOMAIN q : i < j => q[i].file < q[j].file
    /\ \A i \in DOMAIN q :
        /\ list[i].path = res[q[i].file].path
        /\ AsBytes(list[i].text) = res[q[i].file].submitted

\* C4, as claimed: once the writer of every queued file is released, the drain
\* yields one {path, text} entry per open_for_write call, in call order, each
\* text being exactly what was written through that call's writer.
C4_Claim ==
    (IsDrain /\ Reclaimable(last.queue)) =>
        (last.res.ok /\ InSendOrder(last.res.val, last.queue))

\* C4, amended: once the writer of every queued file is released, the drain
\* succeeds exactly when every queued buffer is valid UTF-8, and then yields one
\* entry per queued message in call order, each text being what was written.
C4_Theorem ==
    (IsDrain /\ Reclaimable(last.queue)) =>
        /\ last.res.ok <=> Decodable(last.queue)
        /\ last.res.ok => InSendOrder(last.res.val, last.queue)

C4_Witness ==
    /\ IsDrain /\ last.res.ok
    /\ Len(last.res.val) = 2
    /\ last.res.val[1].path = "/a" /\ last.res.val[2].path = "/b"
    /\ last.res.val[1].text # <<>>
    /\ last.res.val[1].text # last.res.val[2].text

\* C5, as claimed: a drain of queued messages made after every sending half has
\* been dropped returns an error.
C5_Claim ==
    (IsDrain /\ ~last.connected /\ last.queue # <<>>) => ~last.res.ok

\* C5, amended: a drain made after every sending half has been dropped returns
\* the queued files as an open channel would: it succeeds, with one entry per
\* queued message, exactly when every queued file is reclaimable and valid UTF-8.
C5_Theorem ==
    (IsDrain /\ ~last.connected) =>
        /\ last.res.ok <=> (Reclaimable(last.queue) /\ Decodable(last.queue))
        /\ last.res.ok => Len(last.res.val) = Len(last.queue)

C5_Witness ==
    /\ IsDrain /\ ~last.connected
    /\ Len(last.queue) = 2
    /\ last.res.ok

\* C6: the drain is all or nothing: it returns an error, and no list, if any
\* queued file is still held by another owner or is not valid UTF-8, and a list
\* with every queued file only when all are reclaimed and decoded.
C6_Theorem ==
    IsDrain =>
        /\ last.res.ok <=> (Reclaimable(last.queue) /\ Decodable(last.queue))
        /\ ~last.res.ok => last.res = Err(Unit)
        /\ last.res.ok => Len(last.res.val) = Len(last.queue)

C6_Witness ==
    /\ IsDrain /\ ~last.res.ok
    /\ Len(last.queue) = 2
    /\ Released(last.queue[1].file)
    /\ FromUtf8(res[last.queue[1].file].contents).ok
    /\ res[last.queue[1].file].contents # <<>>
    /\ ~Released(last.queue[2].file)

\* C8: unpack calls io_result_unpack exactly once, with its own target_dir and
\* archive; it succeeds exactly when the primitive does, and otherwise returns a
\* WriteTo/Directory error with path = target_dir and the native description.
C8_Theorem ==
    /\ Len(primCalls) = unpacks
    /\ last.op = "unpack" =>
        /\ primCalls[Len(primCalls)] = [path |-> last.path, archive |-> last.archive]
        /\ last.res.ok <=> last.prim.ok
        /\ last.res.ok => last.res = Ok(Unit)
        /\ ~last.res.ok =>
            last.res.error = [action |-> "WriteTo", kind |-> "Directory",
                              path |-> last.path, err |-> Some(last.prim.error)]

C8_Witness ==
    /\ last.op = "unpack"
    /\ unpacks = 2
    /\ ~last.res.ok
    /\ primCalls[1] # primCalls[2]

\* C9: an open_for_write call always returns a writer and queues exactly one
\* (path, buffer) message in the same step, the buffer still empty; with the
\* receiver dropped nothing is queued and the call succeeds all the same; every
\* write through a writer of the test double succeeds.
C9_Theorem ==
    [][/\ last'.op = "writer" =>
            /\ last'.res.ok
            /\ res'[last'.w].contents = <<>>
            /\ queue' = IF receiverAlive
                        THEN Append(queue, [path |-> last'.path, file |-> last'.w])
                        ELSE queue
       /\ (last'.op \in WriteOps /\ res'[last'.w].kind = "mem") => last'.res.ok
      ]_vars

C9_Witness ==
    /\ last.op = "writer"
    /\ ~receiverAlive
    /\ ~last.sent
    /\ last.res.ok
    /\ queue = <<>>
    /\ res[last.w].writer

\* C10: every open_for_write call creates a buffer of its own, empty, and leaves
\* every existing buffer as it was, also for a path already opened; a write
\* changes only the buffer of its own writer; a drain that succeeds has one
\* entry per queued message, two for a path opened twice.
C10_Theorem ==
    [][/\ last'.op = "writer" =>
            /\ Len(res') = Len(res) + 1
            /\ last'.w = Len(res')
            /\ res'[last'.w].contents = <<>>
            /\ \A f \in DOMAIN res : res'[f] = res[f]
       /\ last'.op \in WriteOps =>
            \A f \in DOMAIN res \ {last'.w} : res'[f] = res[f]
       /\ (last'.op = "drain" /\ last'.res.ok) =>
            Len(last'.res.val) = Len(queue)
      ]_vars

C10_Witness ==
    /\ IsDrain /\ last.res.ok
    /\ Len(last.res.val) = 2
    /\ last.res.val[1].path = last.res.val[2].path
    /\ last.res.val[1].text # last.res.val[2].text
    /\ last.res.val[1].text # <<>>

====
